---- MODULE Spec2Model ----
(***************************************************************************)
(* Model of the example tuner plugin (ext-tuner/example): plugin.c and     *)
(* nccl/tuner.h.                                                           *)
(*                                                                         *)
(* Numbers.  The C code computes in float.  The model computes the same   *)
(* expressions exactly, on integer grids chosen so that every product and  *)
(* quotient of the code is an integer:                                     *)
(*   latency   : 1/20 us          (6.8 us = 136, 1.25 us = 25, 3 us = 60)   *)
(*   bandwidth : internode_bw/32  (internode_bw = 2^29/10^4 B/us = 32)      *)
(*   size      : 4 MiB            (2^22 bytes)                             *)
(*   cost      : 1/1920 us                                                 *)
(* so that  latency * pipe_ops  is  96 * latency * pipe_ops  cost units    *)
(* and  size / bw  is  (4800000 * size) / bw  cost units, an exact         *)
(* quotient for every bandwidth the code can produce (128, 240, 256, 480,  *)
(* 512).  Float rounding is monotone, so it can merge two costs that are   *)
(* closer than one ulp but never reverses their order.                     *)
(***************************************************************************)
EXTENDS Integers, Sequences, FiniteSets, TLC

\* ------------------------------------------------------------------ bounds
MaxRanks == 5
MaxPipeOps == 2
MaxSize == 4

\* Larger sample inputs: 64 ranks on 18 nodes with a 192 MiB payload is a
\* point where TREE/LL128 and RING/LL128 have exactly the same, minimal, cost.
SampleDims == { <<64, 18>> }
SampleSizes == { 48 }

Dims == { d \in (1..MaxRanks) \X (1..MaxRanks) : d[2] <= d[1] } \cup SampleDims
Sizes == (0..MaxSize) \cup SampleSizes
PipeOps == 1..MaxPipeOps
Flags == {0, 1}

\* --------------------------------------------------------------- tuner.h
NCCL_NUM_FUNCTIONS == 5
ncclFuncAllReduce == 4
Funcs == 0..(NCCL_NUM_FUNCTIONS - 1)

NCCL_NUM_ALGORITHMS == 6
NCCL_ALGO_UNDEF == -1
NCCL_ALGO_TREE == 0
NCCL_ALGO_RING == 1
NCCL_ALGO_COLLNET_DIRECT == 2
NCCL_ALGO_COLLNET_CHAIN == 3
NCCL_ALGO_NVLS == 4
NCCL_ALGO_NVLS_TREE == 5

NCCL_NUM_PROTOCOLS == 3
NCCL_PROTO_UNDEF == -1
NCCL_PROTO_LL == 0
NCCL_PROTO_LL128 == 1
NCCL_PROTO_SIMPLE == 2

Algos == 0..(NCCL_NUM_ALGORITHMS - 1)
Protos == 0..(NCCL_NUM_PROTOCOLS - 1)

\* Base algorithm latencies, in 1/20 us, rows Tree, Ring, CollnetDirect,
\* CollnetChain, NVLS, NVLSTree and columns LL, LL128, Simple.
nccl_base_lat ==
  << << 136, 280,   0 >>,
     << 132, 280, 168 >>,
     <<   0,   0,   0 >>,
     <<   0,   0,   0 >>,
     <<   0,   0,   0 >>,
     <<   0,   0,   0 >> >>

\* NVLink latencies, in 1/20 us.
nccl_nvlink_lat ==
  << << 12, 25, 560 >>,
     << 12, 38,  68 >>,
     <<  0,  0,  74 >>,
     <<  0,  0,  56 >>,
     <<  0,  0, 500 >>,
     <<  0,  0, 500 >> >>

NCCL_TUNER_NET_LAT == 60
NCCL_TUNER_NET_NUM_CHANNELS == 16
NCCL_TUNER_INTERNODE_BW == 32
NCCL_TUNER_INTRANODE_BW == 12

\* A number of microseconds in cost units.
Us(x) == 1920 * x

\* FLT_MAX: larger than every cost the model can produce.
FLT_MAX == 2147483647

RECURSIVE log2i(_)
log2i(n) == IF n \div 2 = 0 THEN 0 ELSE 1 + log2i(n \div 2)

\* The switch of nccl_tuner_compute_cost: which (func, algo) has a model.
HasModel_NoFuncSwitch(func, algo) ==
  algo \in {NCCL_ALGO_RING, NCCL_ALGO_TREE, NCCL_ALGO_NVLS_TREE}

HasModel(func, algo) ==
  /\ func = ncclFuncAllReduce
  /\ algo \in {NCCL_ALGO_RING, NCCL_ALGO_TREE, NCCL_ALGO_NVLS_TREE}

\* The body of the case of the inner switch: the step counts, the total
\* latency and the raw bandwidth of one modelled algorithm.
AlgoModel(params, dims, algo, latency, intraLat, interLat) ==
  IF algo = NCCL_ALGO_RING
  THEN LET num_steps == 2 * (dims.num_ranks - 1)
           num_internode_steps == 2 * dims.num_nodes
           num_intranode_steps == num_steps - num_internode_steps
       IN [ num_steps |-> num_steps,
            num_internode_steps |-> num_internode_steps,
            num_intranode_steps |-> num_intranode_steps,
            latency |-> latency + num_internode_steps * interLat
                                + num_intranode_steps * intraLat,
            bw |-> params.internode_bw * params.num_channels ]
  ELSE IF algo = NCCL_ALGO_TREE
  THEN [ num_steps |-> 0, num_internode_steps |-> 0, num_intranode_steps |-> 0,
         latency |-> latency
                     + 2 * (((dims.num_ranks \div dims.num_nodes) - 1) * intraLat
                            + log2i(dims.num_nodes) * interLat),
         bw |-> (params.internode_bw * params.num_channels) \div 2 ]
  ELSE [ num_steps |-> 0, num_internode_steps |-> 0, num_intranode_steps |-> 0,
         latency |-> latency + intraLat + 2 * log2i(dims.num_nodes) * interLat,
         bw |-> (params.internode_bw * params.num_channels) \div 2 ]

\* The penalty of the low-latency protocols: bw *= 0.5, bw *= 0.9375.
ProtoPenalty(proto, bw) ==
  IF proto = NCCL_PROTO_LL THEN bw \div 2
  ELSE IF proto = NCCL_PROTO_LL128 THEN (bw * 15) \div 16
  ELSE bw

\* cost = (latency * pipe_ops) + size / bw, in cost units.
CostModel_SignSlip(latency, pipe_ops, size, bw) ==
  (96 * latency * pipe_ops) - ((4800000 * size) \div bw)

CostModel(latency, pipe_ops, size, bw) ==
  (96 * latency * pipe_ops) + ((4800000 * size) \div bw)

\* nccl_tuner_compute_cost: the locals of the function at its return.  The
\* field cost is the value returned; reached tells which return was taken.
nccl_tuner_compute_cost(params, dims, func, algo, proto, pipe_ops, size) ==
  LET latency == nccl_base_lat[algo + 1][proto + 1]
      intraLat == nccl_nvlink_lat[algo + 1][proto + 1]
      interLat == params.net_lat
      args == [ func |-> func, algo |-> algo, proto |-> proto,
                pipe_ops |-> pipe_ops, size |-> size, dims |-> dims ]
  IN IF ~HasModel(func, algo)
     THEN [ reached |-> "nomodel", args |-> args, cost |-> Us(-1),
            base |-> latency, latency |-> latency, bw |-> 0,
            num_steps |-> 0, num_internode_steps |-> 0,
            num_intranode_steps |-> 0 ]
     ELSE LET m == AlgoModel(params, dims, algo, latency, intraLat, interLat)
              bw == ProtoPenalty(proto, m.bw)
          IN [ reached |-> "cost", args |-> args,
               cost |-> CostModel(m.latency, pipe_ops, size, bw),
               base |-> latency, latency |-> m.latency, bw |-> bw,
               num_steps |-> m.num_steps,
               num_internode_steps |-> m.num_internode_steps,
               num_intranode_steps |-> m.num_intranode_steps ]

NoEval == [ reached |-> "none" ]

\* --------------------------------------------------------------- plugin.c
NULL == 0
ncclSuccess == "ncclSuccess"
ncclInternalError == "ncclInternalError"

\* The params initialiser of pluginInit.
InitParams ==
  [ net_lat |-> NCCL_TUNER_NET_LAT,
    internode_bw |-> NCCL_TUNER_INTERNODE_BW,
    intranode_bw |-> NCCL_TUNER_INTRANODE_BW,
    num_channels |-> NCCL_TUNER_NET_NUM_CHANNELS ]

\* A calloc'ed nccl_tuner_context.
ZeroContext ==
  [ dims |-> [ num_ranks |-> 0, num_nodes |-> 0 ],
    params |-> [ net_lat |-> 0, internode_bw |-> 0, intranode_bw |-> 0,
                 num_channels |-> 0 ] ]

\* if (nccl_tuner_ctx->dims.num_nodes <= 2) return ncclSuccess;
SkipSearch_OffByOne(num_nodes) == num_nodes < 2

SkipSearch(num_nodes) == num_nodes <= 2

\* The three continue statements at the head of the outer loop.
AlgoSkipped_NvlsKept(a, collNet, nvls) ==
  \/ nvls = 0 /\ a = NCCL_ALGO_NVLS_TREE
  \/ collNet = 0 /\ a \in {NCCL_ALGO_COLLNET_DIRECT, NCCL_ALGO_COLLNET_CHAIN}

AlgoSkipped(a, collNet, nvls) ==
  \/ a = NCCL_ALGO_NVLS
  \/ nvls = 0 /\ a = NCCL_ALGO_NVLS_TREE
  \/ collNet = 0 /\ a \in {NCCL_ALGO_COLLNET_DIRECT, NCCL_ALGO_COLLNET_CHAIN}

\* The continue statement at the head of the inner loop.
ProtoSkipped(a, p) == a = NCCL_ALGO_NVLS_TREE /\ p # NCCL_PROTO_SIMPLE

\* if (cost < lowest)
Improves_OrEqual(c, low) == c <= low

Improves(c, low) == c < low

\* *algorithm = algo; *protocol = proto;  on the outputs o.  The field
\* written records which outputs the call has stored to.
StoreRecommendation_AlgoOnly(o, a, p) ==
  [ o EXCEPT !.algorithm = a, !.written = @ \cup {"algorithm"} ]

StoreRecommendation(o, a, p) ==
  [ o EXCEPT !.algorithm = a, !.protocol = p,
             !.written = @ \cup {"algorithm", "protocol"} ]

\* Output values a caller may hold before a call.
PriorOutputs ==
  { [ algorithm |-> NCCL_ALGO_UNDEF, protocol |-> NCCL_PROTO_UNDEF, nChannels |-> 0 ],
    [ algorithm |-> NCCL_ALGO_RING, protocol |-> NCCL_PROTO_LL, nChannels |-> 1 ] }

\* ------------------------------------------------------------------ state
VARIABLES
  heap,            \* state of the context block: "unallocated", "allocated", "freed"
  frees,           \* free() calls on the block since it was allocated
  fault,           \* outcome of undefined behaviour: "none", "abort", "corrupt"
  context,         \* the caller's handle: NULL or the address of the block
  ctx,             \* contents of the block (struct nccl_tuner_context)
  result,          \* ncclResult_t of the last call that returned
  pc,              \* position of pluginGetCollInfo: "idle", "outer", "inner", "returned"
  collType, nBytes, collNetSupport, nvlsSupport, numPipeOps,  \* arguments
  algo, proto, cost, lowest,                                  \* locals
  algorithm, protocol, nChannels,                             \* *algorithm, *protocol, *nChannels
  written,         \* outputs stored to by the call in flight
  pre,             \* the outputs as they were before the call
  evaluated,       \* the (algo, proto) pairs passed to the cost function, in order
  eval             \* locals of the last nccl_tuner_compute_cost call

heapVars == << heap, frees, fault, context, ctx >>
argVars == << collType, nBytes, collNetSupport, nvlsSupport, numPipeOps >>
outVars == << algorithm, protocol, nChannels, written >>
vars == << heap, frees, fault, context, ctx, result, pc,
           collType, nBytes, collNetSupport, nvlsSupport, numPipeOps,
           algo, proto, cost, lowest, algorithm, protocol, nChannels,
           written, pre, evaluated, eval >>

Range(s) == { s[i] : i \in 1..Len(s) }

Init ==
  /\ heap = "unallocated" /\ frees = 0 /\ fault = "none"
  /\ context = NULL /\ ctx = ZeroContext
  /\ result = ncclSuccess /\ pc = "idle"
  /\ collType = 0 /\ nBytes = 0 /\ collNetSupport = 0 /\ nvlsSupport = 0
  /\ numPipeOps = 1
  /\ algo = 0 /\ proto = 0 /\ cost = 0 /\ lowest = FLT_MAX
  /\ algorithm = NCCL_ALGO_UNDEF /\ protocol = NCCL_PROTO_UNDEF /\ nChannels = 0
  /\ written = {}
  /\ pre = [ algorithm |-> NCCL_ALGO_UNDEF, protocol |-> NCCL_PROTO_UNDEF,
             nChannels |-> 0 ]
  /\ evaluated = << >> /\ eval = NoEval

NoCallInFlight == pc \in {"idle", "returned"}

\* pluginInit, calloc succeeding or not.  One session is modelled: the
\* block is allocated once.
pluginInit(nRanks, nNodes, callocOk) ==
  /\ fault = "none" /\ NoCallInFlight
  /\ heap = "unallocated"
  /\ IF callocOk
     THEN /\ heap' = "allocated" /\ frees' = 0
          /\ ctx' = [ dims |-> [ num_ranks |-> nRanks, num_nodes |-> nNodes ],
                      params |-> InitParams ]
          /\ context' = 1
          /\ result' = ncclSuccess
     ELSE /\ result' = ncclInternalError
          /\ UNCHANGED << heap, frees, ctx, context >>
  /\ pc' = "idle"
  /\ UNCHANGED << fault, argVars, algo, proto, cost, lowest, outVars, pre,
                  evaluated, eval >>

\* pluginDestroy(context) on the caller's handle.  free() of a block that
\* is already freed is undefined: the allocator aborts or is corrupted.
pluginDestroy ==
  /\ fault = "none" /\ NoCallInFlight
  /\ IF context # NULL
     THEN IF heap = "allocated"
          THEN /\ heap' = "freed" /\ frees' = frees + 1
               /\ UNCHANGED fault
          ELSE /\ frees' = frees + 1
               /\ fault' \in {"abort", "corrupt"}
               /\ UNCHANGED heap
     ELSE UNCHANGED << heap, frees, fault >>
  /\ result' = ncclSuccess
  /\ pc' = "idle"
  /\ UNCHANGED << context, ctx, argVars, algo, proto, cost, lowest, outVars,
                  pre, evaluated, eval >>

\* pluginGetCollInfo, lines 38-46: the locals, the node-count test and the
\* initialisation of the outer loop.
GetCollInfoEnter(func, size, collNet, nvls, pipe, prior) ==
  /\ fault = "none" /\ NoCallInFlight
  /\ heap = "allocated" /\ context # NULL
  /\ collType' = func /\ nBytes' = size /\ collNetSupport' = collNet
  /\ nvlsSupport' = nvls /\ numPipeOps' = pipe
  /\ algorithm' = prior.algorithm /\ protocol' = prior.protocol
  /\ nChannels' = prior.nChannels /\ written' = {} /\ pre' = prior
  /\ cost' = 0 /\ lowest' = FLT_MAX /\ proto' = 0 /\ algo' = 0
  /\ evaluated' = << >> /\ eval' = NoEval
  /\ IF SkipSearch(ctx.dims.num_nodes)
     THEN pc' = "returned" /\ result' = ncclSuccess
     ELSE pc' = "outer" /\ UNCHANGED result
  /\ UNCHANGED heapVars

\* Outer loop, algo == NCCL_NUM_ALGORITHMS: return ncclSuccess.
GetCollInfoReturn ==
  /\ pc = "outer" /\ algo >= NCCL_NUM_ALGORITHMS
  /\ pc' = "returned" /\ result' = ncclSuccess
  /\ UNCHANGED << heapVars, argVars, algo, proto, cost, lowest, outVars, pre,
                  evaluated, eval >>

\* Outer loop, one of the continue statements of lines 48-55.
AlgoContinue ==
  /\ pc = "outer" /\ algo < NCCL_NUM_ALGORITHMS
  /\ AlgoSkipped(algo, collNetSupport, nvlsSupport)
  /\ algo' = algo + 1
  /\ UNCHANGED << heapVars, result, pc, argVars, proto, cost, lowest, outVars,
                  pre, evaluated, eval >>

\* Outer loop, entering the inner loop: proto = 0.
ProtoLoopEnter ==
  /\ pc = "outer" /\ algo < NCCL_NUM_ALGORITHMS
  /\ ~AlgoSkipped(algo, collNetSupport, nvlsSupport)
  /\ proto' = 0 /\ pc' = "inner"
  /\ UNCHANGED << heapVars, result, argVars, algo, cost, lowest, outVars, pre,
                  evaluated, eval >>

\* Inner loop exhausted: algo++.
ProtoLoopExit ==
  /\ pc = "inner" /\ proto >= NCCL_NUM_PROTOCOLS
  /\ algo' = algo + 1 /\ pc' = "outer"
  /\ UNCHANGED << heapVars, result, argVars, proto, cost, lowest, outVars, pre,
                  evaluated, eval >>

\* Inner loop, the continue statement of lines 59-60.
ProtoContinue ==
  /\ pc = "inner" /\ proto < NCCL_NUM_PROTOCOLS
  /\ ProtoSkipped(algo, proto)
  /\ proto' = proto + 1
  /\ UNCHANGED << heapVars, result, pc, argVars, algo, cost, lowest, outVars,
                  pre, evaluated, eval >>

\* Inner loop, lines 62-71: cost the pair and keep it if it is the lowest.
Evaluate ==
  /\ pc = "inner" /\ proto < NCCL_NUM_PROTOCOLS
  /\ ~ProtoSkipped(algo, proto)
  /\ LET e == nccl_tuner_compute_cost(ctx.params, ctx.dims, collType, algo,
                                      proto, numPipeOps, nBytes)
         o == [ algorithm |-> algorithm, protocol |-> protocol,
                nChannels |-> nChannels, written |-> written ]
         n == IF e.cost >= 0 /\ Improves(e.cost, lowest)
              THEN StoreRecommendation(o, algo, proto) ELSE o
     IN /\ eval' = e
        /\ evaluated' = Append(evaluated, << algo, proto >>)
        /\ cost' = e.cost
        /\ lowest' = IF e.cost >= 0 /\ Improves(e.cost, lowest)
                     THEN e.cost ELSE lowest
        /\ algorithm' = n.algorithm /\ protocol' = n.protocol
        /\ nChannels' = n.nChannels /\ written' = n.written
  /\ proto' = proto + 1
  /\ UNCHANGED << heapVars, result, pc, argVars, algo, pre >>

Next ==
  \/ \E d \in Dims, ok \in BOOLEAN : pluginInit(d[1], d[2], ok)
  \/ pluginDestroy
  \/ \E f \in Funcs, s \in Sizes, c \in Flags, n \in Flags, p \in PipeOps,
        o \in PriorOutputs : GetCollInfoEnter(f, s, c, n, p, o)
  \/ GetCollInfoReturn
  \/ AlgoContinue
  \/ ProtoLoopEnter
  \/ ProtoLoopExit
  \/ ProtoContinue
  \/ Evaluate

Spec == Init /\ [][Next]_vars

\* ----------------------------------------------- the cost function alone
\* nccl_tuner_compute_cost called directly, on any valid topology and any
\* (func, algo, proto): the arguments are drawn by InitCost.
InitCost ==
  /\ heap = "allocated" /\ frees = 0 /\ fault = "none" /\ context = 1
  /\ \E d \in Dims :
        ctx = [ dims |-> [ num_ranks |-> d[1], num_nodes |-> d[2] ],
                params |-> InitParams ]
  /\ result = ncclSuccess /\ pc = "idle"
  /\ collType \in Funcs /\ nBytes \in Sizes /\ numPipeOps \in PipeOps
  /\ algo \in Algos /\ proto \in Protos
  /\ collNetSupport = 0 /\ nvlsSupport = 0
  /\ cost = Us(-1) /\ lowest = FLT_MAX
  /\ algorithm = NCCL_ALGO_UNDEF /\ protocol = NCCL_PROTO_UNDEF /\ nChannels = 0
  /\ written = {}
  /\ pre = [ algorithm |-> NCCL_ALGO_UNDEF, protocol |-> NCCL_PROTO_UNDEF,
             nChannels |-> 0 ]
  /\ evaluated = << >> /\ eval = NoEval

ComputeCostCall ==
  /\ eval = NoEval
  /\ eval' = nccl_tuner_compute_cost(ctx.params, ctx.dims, collType, algo,
                                     proto, numPipeOps, nBytes)
  /\ cost' = eval'.cost
  /\ UNCHANGED << heapVars, result, pc, argVars, algo, proto, lowest, outVars,
                  pre, evaluated >>

NextCost == ComputeCostCall

SpecCost == InitCost /\ [][NextCost]_vars

\* ----------------------------------------------------------------- claims
\* The admissibility rule as the specification states it.
ClaimAdmissible(collNet, nvls) ==
  { q \in Algos \X Protos :
      /\ q[1] # NCCL_ALGO_NVLS
      /\ q[1] = NCCL_ALGO_NVLS_TREE => (nvls # 0 /\ q[2] = NCCL_PROTO_SIMPLE)
      /\ q[1] \in {NCCL_ALGO_COLLNET_DIRECT, NCCL_ALGO_COLLNET_CHAIN}
           => collNet # 0 }

\* The cost of pair q for the arguments of the call in flight.
CostOf(q) ==
  nccl_tuner_compute_cost(ctx.params, ctx.dims, collType, q[1], q[2],
                          numPipeOps, nBytes).cost

\* Position of pair q in the enumeration: algorithms outer, protocols inner.
EnumIndex(q) == q[1] * NCCL_NUM_PROTOCOLS + q[2]

Computable == { q \in ClaimAdmissible(collNetSupport, nvlsSupport) : CostOf(q) >= 0 }

Searched == pc = "returned" /\ ctx.dims.num_nodes > 2

Unchanged ==
  /\ algorithm = pre.algorithm /\ protocol = pre.protocol
  /\ nChannels = pre.nChannels /\ written = {}

\* C1: on a session with more than two nodes the pairs are costed in
\* enumeration order (algorithm outer, protocol inner), and when some
\* admissible pair has a cost >= 0 the pair written is one of minimum cost
\* among them, the first such pair in enumeration order.
C1_MinCostFirstSeen ==
  /\ \A i, j \in 1..Len(evaluated) :
       i < j => EnumIndex(evaluated[i]) < EnumIndex(evaluated[j])
  /\ (Searched /\ Computable # {}) =>
       LET best == << algorithm, protocol >>
       IN /\ written = {"algorithm", "protocol"}
          /\ best \in Computable
          /\ \A q \in Computable :
               /\ CostOf(best) <= CostOf(q)
               /\ CostOf(q) = CostOf(best) => EnumIndex(best) <= EnumIndex(q)

\* C1 witness: a search that returned a pair while a later pair had the
\* same, minimal, cost.
C1_Witness ==
  /\ Searched /\ written # {}
  /\ \E q \in Computable :
       /\ q # << algorithm, protocol >>
       /\ CostOf(q) = CostOf(<< algorithm, protocol >>)

\* C2: when a recommendation is made the channel count returned is the
\* configured channel budget of the session.
C2_ChannelBudgetReturned ==
  (Searched /\ Computable # {}) => nChannels = ctx.params.num_channels

\* C3: with at most two nodes the call returns success, leaves the three
\* outputs as they were and never calls the cost function.
C3_SmallJobsUntouched ==
  (heap = "allocated" /\ ctx.dims.num_nodes <= 2) =>
    /\ pc \in {"idle", "returned"}
    /\ pc = "returned" =>
         /\ result = ncclSuccess /\ Unchanged
         /\ evaluated = << >> /\ eval = NoEval

\* C3 witness: an all-reduce call on a two-node session has returned, the
\* caller holding values in the outputs and both capabilities on.
C3_Witness ==
  /\ pc = "returned" /\ heap = "allocated" /\ ctx.dims.num_nodes = 2
  /\ collType = ncclFuncAllReduce /\ pre.algorithm = NCCL_ALGO_RING
  /\ collNetSupport = 1 /\ nvlsSupport = 1
  /\ algorithm = NCCL_ALGO_RING

\* C4: a close of an already closed handle, or of a null handle, releases
\* nothing: no block is freed twice and nothing goes wrong.
C4_SecondCloseIsNoOp == frees <= 1 /\ fault = "none"

\* C5: at every point of the search the algorithm and the protocol are
\* both written or both untouched, and a written pair is a pair that was
\* costed together.
C5_PairWrittenTogether ==
  /\ written \in { {}, {"algorithm", "protocol"} }
  /\ written = {} => (algorithm = pre.algorithm /\ protocol = pre.protocol)
  /\ written # {} => << algorithm, protocol >> \in Range(evaluated)

\* C5 witness: in the middle of the search, a pair written and later pairs
\* costed without replacing it.
C5_Witness ==
  /\ pc = "inner" /\ written # {}
  /\ << algorithm, protocol >> # evaluated[Len(evaluated)]

\* C6: the pairs costed obey the admissibility rule; the pairs costed
\* without NVLS support are among those costed with it; with neither
\* capability only TREE and RING are costed and returned.
C6_AdmissibleOnly ==
  /\ Range(evaluated) \subseteq ClaimAdmissible(collNetSupport, nvlsSupport)
  /\ Searched => Range(evaluated) = ClaimAdmissible(collNetSupport, nvlsSupport)
  /\ nvlsSupport = 0 => Range(evaluated) \subseteq ClaimAdmissible(collNetSupport, 1)
  /\ (collNetSupport = 0 /\ nvlsSupport = 0) =>
       /\ \A q \in Range(evaluated) : q[1] \in {NCCL_ALGO_TREE, NCCL_ALGO_RING}
       /\ written # {} => algorithm \in {NCCL_ALGO_TREE, NCCL_ALGO_RING}

\* C6 witness: a finished all-reduce search with neither capability, which
\* costed the six TREE and RING pairs and returned one of them.
C6_Witness ==
  /\ Searched /\ collNetSupport = 0 /\ nvlsSupport = 0
  /\ collType = ncclFuncAllReduce
  /\ Len(evaluated) = 6 /\ written # {}

\* C7: for a collective other than all-reduce every cost is -1, the search
\* still visits every admissible pair, and the call returns success with
\* the three outputs as they were.
C7_UnmodelledCollective ==
  (heap = "allocated" /\ ctx.dims.num_nodes > 2 /\ collType # ncclFuncAllReduce) =>
    /\ eval # NoEval => eval.cost = Us(-1)
    /\ Unchanged
    /\ pc = "returned" =>
         /\ result = ncclSuccess
         /\ Range(evaluated) = ClaimAdmissible(collNetSupport, nvlsSupport)

\* C7 witness: a finished search for another collective, both capabilities
\* on, thirteen pairs costed.
C7_Witness ==
  /\ Searched /\ heap = "allocated" /\ collType # ncclFuncAllReduce
  /\ collNetSupport = 1 /\ nvlsSupport = 1
  /\ Len(evaluated) = 13 /\ eval.cost = Us(-1)

\* C8: for a modelled combination on a valid topology the total latency is
\* not negative and the cost does not decrease when the payload grows or
\* when the pipeline depth grows.
C8_CostMonotone ==
  eval.reached = "cost" =>
    /\ eval.latency >= 0
    /\ \A s \in Sizes :
         s >= nBytes =>
           nccl_tuner_compute_cost(ctx.params, ctx.dims, collType, algo, proto,
                                   numPipeOps, s).cost >= eval.cost
    /\ \A q \in PipeOps :
         q >= numPipeOps =>
           nccl_tuner_compute_cost(ctx.params, ctx.dims, collType, algo, proto,
                                   q, nBytes).cost >= eval.cost

\* C8 witness: the ring model costed with one rank per node, a payload and
\* a depth that can both still grow.
C8_Witness ==
  /\ eval.reached = "cost" /\ algo = NCCL_ALGO_RING
  /\ ctx.dims.num_ranks = ctx.dims.num_nodes
  /\ nBytes = 1 /\ numPipeOps = 1
  /\ eval.num_intranode_steps < 0

\* C9: a pair whose base latency entry is zero never reaches the division
\* of the cost function and is never the recommendation.
C9_ZeroBaseNeverCosted ==
  /\ eval.reached = "cost" => eval.base # 0
  /\ written # {} => nccl_base_lat[algorithm + 1][protocol + 1] # 0

\* C10: in the ring model the inter-node steps are part of the total and
\* the intra-node steps are the remainder, which is not negative.
C10_RingStepSplit ==
  (eval.reached = "cost" /\ eval.args.algo = NCCL_ALGO_RING) =>
    /\ eval.num_steps = 2 * (eval.args.dims.num_ranks - 1)
    /\ eval.num_internode_steps = 2 * eval.args.dims.num_nodes
    /\ eval.num_internode_steps <= eval.num_steps
    /\ eval.num_intranode_steps = eval.num_steps - eval.num_internode_steps
    /\ eval.num_intranode_steps >= 0

====
